---- MODULE Spec2Model ----
(***************************************************************************)
(* Blind Spot Finder: the orchestration of the three agent calls, the      *)
(* report composition, the debate view and the idea comparison, as wired   *)
(* by the Gradio front-end (src/app.py), the severity rendering, the CLI   *)
(* process (src/cli_app.py) and the Streamlit script (src/sl_app.py).      *)
(*                                                                         *)
(* Text is a sequence of one-character strings.  Fixed literals of the     *)
(* program (messages, prompts' headings) are one-element sequences holding *)
(* the literal.  Temperatures are counted in slider steps of 0.05, so 1.0  *)
(* is 20 and the +0.1 bias is 2.                                           *)
(***************************************************************************)
EXTENDS Integers, Sequences, FiniteSets, TLC

VARIABLES
    apiKey,     \* os.getenv("OPENAI_API_KEY"): NoneText when unset
    run,        \* the invocation of run_full_analysis of the current user action
    debate,     \* the invocation of debate_view of the current user action
    compare,    \* the invocation of compare_ideas of the current user action
    sev,        \* one rendering of the severity bars: the estimator's result, the HTML
    cli,        \* the CLI process (cli_app.py main)
    file,       \* blind_spot_report.txt in the working directory: NoFile when absent
    sl          \* the Streamlit script run (sl_app.py main) and its session state

vars == <<apiKey, run, debate, compare, sev, cli, file, sl>>

\* What the Gradio handlers leave alone.
otherVars == <<sev, cli, file, sl>>

(***************************************************************************)
(* Text helpers (Python str).                                              *)
(***************************************************************************)

\* Python's None, kept apart from every real text (the empty text is <<>>).
NoneText == <<"<None>">>

\* str.strip(): leading and trailing whitespace removed.
Whitespace == {" ", "\n"}

RECURSIVE StripLeft(_)
StripLeft(s) ==
    IF s = <<>> THEN <<>>
    ELSE IF Head(s) \in Whitespace THEN StripLeft(Tail(s))
    ELSE s

RECURSIVE StripRight(_)
StripRight(s) ==
    IF s = <<>> THEN <<>>
    ELSE IF s[Len(s)] \in Whitespace THEN StripRight(SubSeq(s, 1, Len(s) - 1))
    ELSE s

Strip(s) == StripRight(StripLeft(s))

\* str.replace(old, new): every non-overlapping occurrence, leftmost first;
\* the text put in is not scanned again by the same call.
RECURSIVE Replace(_, _, _)
Replace(s, old, new) ==
    IF Len(s) < Len(old) THEN s
    ELSE IF SubSeq(s, 1, Len(old)) = old
         THEN new \o Replace(SubSeq(s, Len(old) + 1, Len(s)), old, new)
         ELSE <<Head(s)>> \o Replace(Tail(s), old, new)

\* x in s (contiguous substring).
IsSubstring(x, s) ==
    \E i \in 1..(Len(s) - Len(x) + 1) : SubSeq(s, i, i + Len(x) - 1) = x

Min(a, b) == IF a < b THEN a ELSE b
Max(a, b) == IF a > b THEN a ELSE b

(***************************************************************************)
(* Inputs of the model.                                                    *)
(***************************************************************************)

\* Temperature slider: 0.0 .. 1.0 in steps of 0.05; default 0.4.  Temps are
\* the positions the main specification draws from: 0.0, the default 0.4,
\* 0.9 (the bias reaches 1.0 exactly), 0.95 and 1.0 (the cap applies).
TempMax == 20
TempBias == 2
DebateDefaultTemp == 10
Temps == {0, 8, 18, 19, 20}
AllTemps == 0..TempMax

Models == {"gpt-4o-mini"}

\* What the user may have typed as Idea A / Idea B: nothing, up to MaxPad
\* blanks, or a word after up to MaxPad blanks.
MaxPad == 1
Spaces(n) == [i \in 1..n |-> " "]
Ideas ==
    {NoneText}
    \cup {Spaces(n) : n \in 0..MaxPad}
    \cup {Spaces(n) \o <<"a">> : n \in 0..MaxPad}

\* The six placeholders of the report template; the letter stands for the
\* name between the braces (A for ANALYZER_OUTPUT, ...).
Tok(n) == <<"{", n, "}">>
TokenNames == {"A", "P", "S", "E", "T", "R"}
Tokens == {Tok(n) : n \in TokenNames}

\* Raw completion texts the service may return to the analysis run.
ServiceTexts ==
    {<<"a">>, <<" ", "a">>, <<"b", "{">>, Tok("S"), Tok("A")}

\* Raw completion texts the service may return to debate and comparison.
DebateTexts == {<<"c">>, <<"d", " ">>}

\* Exceptions.
OpenAIError == [type |-> "OpenAIError", msg |-> "The api_key client option must be set"]
PromptError == [type |-> "FileNotFoundError", msg |-> "prompt file"]
TemplateError == [type |-> "FileNotFoundError", msg |-> "report_template.txt"]
NetErrors == {[type |-> "APIConnectionError", msg |-> "Connection error."]}
NoError == [type |-> "", msg |-> ""]

(***************************************************************************)
(* utils/combine.py                                                        *)
(***************************************************************************)

\* prompts/report_template.txt: fixed text holding the six placeholders.
Template ==
    <<"#">> \o Tok("E") \o <<"#">> \o Tok("T") \o <<"#">> \o Tok("A")
    \o <<"#">> \o Tok("P") \o <<"#">> \o Tok("S") \o <<"#">> \o Tok("R")

\* build_report leaving the {TOP_THREE} placeholder unreplaced.
build_report_skips_one(analyzer_output, perspective_output, skeptic_output, exec_summary, top_three, recommendations) ==
    Replace(Replace(Replace(Replace(Replace(Template,
        Tok("A"), analyzer_output),
        Tok("P"), perspective_output),
        Tok("S"), skeptic_output),
        Tok("E"), exec_summary),
        Tok("R"), recommendations)

build_report(analyzer_output, perspective_output, skeptic_output, exec_summary, top_three, recommendations) ==
    Replace(Replace(Replace(Replace(Replace(Replace(Template,
        Tok("A"), analyzer_output),
        Tok("P"), perspective_output),
        Tok("S"), skeptic_output),
        Tok("E"), exec_summary),
        Tok("T"), top_three),
        Tok("R"), recommendations)

\* Python values a severity score may be.  Numbers are counted in halves, so
\* 70 is 140 halves and 99.5 is 199; NaN and the infinities are floats
\* too (SpecialScore).
IntScore(n) == [t |-> "int", h |-> 2 * n, text |-> ""]
FloatScore(halves) == [t |-> "float", h |-> halves, text |-> ""]
StrScore(text) == [t |-> "str", h |-> 0, text |-> text]
SpecialScore(t) == [t |-> t, h |-> 0, text |-> ""]

\* A dict keeps its items in insertion order.
Dict(items) == [kind |-> "dict", items |-> items]

build_severity_bars ==
    Dict(<<[label |-> "Assumptions", score |-> IntScore(70)],
           [label |-> "Risks", score |-> IntScore(80)],
           [label |-> "Perspectives", score |-> IntScore(65)],
           [label |-> "Evidence", score |-> IntScore(60)],
           [label |-> "Fragility", score |-> IntScore(75)]>>)

(***************************************************************************)
(* app.py: texts and results                                               *)
(***************************************************************************)

exec_summary == <<"e">>
top_three == <<"t">>
recommendations == <<"r">>



\* float(score): a number converts to itself, a text converts when it spells
\* a number (with nan and inf among the spellings), anything else raises
\* (the special score "raises", never rendered).
FloatOf(score) ==
    IF score.t \in {"int", "float", "nan", "inf", "-inf"} THEN score
    ELSE IF score.t = "str" /\ score.text = "150" THEN FloatScore(300)
    ELSE IF score.t = "str" /\ score.text = "42.5" THEN FloatScore(85)
    ELSE IF score.t = "str" /\ score.text = "nan" THEN SpecialScore("nan")
    ELSE SpecialScore("raises")

\* Python's x < y on floats: every comparison with NaN is false.
FloatLess(x, y) ==
    IF x.t = "nan" \/ y.t = "nan" THEN FALSE
    ELSE IF x.t = "-inf" THEN y.t # "-inf"
    ELSE IF y.t = "inf" THEN x.t # "inf"
    ELSE IF x.t = "inf" \/ y.t = "-inf" THEN FALSE
    ELSE x.h < y.h

\* min(a, b) and max(a, b) of Python: the first argument unless the second
\* is smaller (greater).
PyMin(a, b) == IF FloatLess(b, a) THEN b ELSE a
PyMax(a, b) == IF FloatLess(a, b) THEN b ELSE a

\* ClampScore without the min(100.0, ...) bound.
ClampScoreNoUpper(score) ==
    LET f == IF FloatOf(score) = SpecialScore("raises") THEN FloatScore(0) ELSE FloatOf(score)
    IN PyMax(FloatScore(0), f)

\* try: score = float(score)  except: score = 0.0
\* score = max(0.0, min(100.0, score))
ClampScore(score) ==
    LET f == IF FloatOf(score) = SpecialScore("raises") THEN FloatScore(0) ELSE FloatOf(score)
    IN PyMax(FloatScore(0), PyMin(FloatScore(200), f))

\* The format {score:.0f} of a float: the nearest integer, a tie going to
\* the even one.
FormatNoDecimals(f) ==
    IF f.t \in {"nan", "inf", "-inf"} THEN f.t
    ELSE IF f.h % 2 = 0 THEN ToString(f.h \div 2)
    ELSE IF ((f.h - 1) \div 2) % 2 = 0 THEN ToString((f.h - 1) \div 2)
    ELSE ToString((f.h + 1) \div 2)

\* The loop over data.items(): one bar per item, its label, the percentage
\* shown and the same percentage as the width of the filled part.
RECURSIVE RenderBars(_)
RenderBars(items) ==
    IF items = <<>> THEN <<>>
    ELSE <<"<bar>", Head(items).label,
           FormatNoDecimals(ClampScore(Head(items).score)), "%",
           "width:", FormatNoDecimals(ClampScore(Head(items).score)), "%">>
         \o RenderBars(Tail(items))

\* render_severity_bars on the estimator's result data.
RenderSeverity(data) ==
    IF data.kind # "dict" THEN <<"<p>(warning) Could not compute severity distribution.</p>">>
    ELSE <<"<div>">> \o RenderBars(data.items) \o <<"</div>">>

render_severity_bars == RenderSeverity(build_severity_bars)

WarnNoIdea == <<"(warning) Please enter an idea, plan, or argument first.">>
StatusNoInput == <<"No input provided.">>
StatusComplete == <<"(ok) Multi-agent analysis complete.">>
WarnNoIdeaDebate == <<"(warning) Please enter an idea first.">>
WarnBothIdeas == <<"(warning) Please provide **both** Idea A and Idea B for comparison.">>
MsgKeyMissing == <<"(error) OPENAI_API_KEY missing. Check your .env file.">>

\* IsBlank without the strip() test.
IsBlankNoStrip(s) == s = NoneText \/ s = <<>>

\* not idea or not idea.strip()
IsBlank(s) == s = NoneText \/ s = <<>> \/ Strip(s) = <<>>

\* The message of the except clause: the fixed prefix, the exception's type
\* name, a dash, the exception's text (emoji of the literals are written
\* out as (warning), (ok), (error)).
ErrMsg(e) == <<"(error) Error during analysis: ", e.type, " - ", e.msg>>

BlankResult ==
    [report |-> WarnNoIdea, analyzer |-> <<>>, perspective |-> <<>>,
     skeptic |-> <<>>, severity |-> <<>>, status |-> StatusNoInput]

\* ErrorResult keeping the agent outputs computed before the failure.
ErrorResultLeaky(e) ==
    [report |-> ErrMsg(e), analyzer |-> run.analyzer_out,
     perspective |-> run.perspective_out,
     skeptic |-> <<>>, severity |-> <<>>, status |-> ErrMsg(e)]

ErrorResult(e) ==
    [report |-> ErrMsg(e), analyzer |-> <<>>, perspective |-> <<>>,
     skeptic |-> <<>>, severity |-> <<>>, status |-> ErrMsg(e)]

SuccessResult(a, p, s) ==
    [report |-> build_report(a, p, s, exec_summary, top_three, recommendations),
     analyzer |-> a, perspective |-> p, skeptic |-> s,
     severity |-> render_severity_bars, status |-> StatusComplete]

NoResult ==
    [report |-> <<>>, analyzer |-> <<>>, perspective |-> <<>>,
     skeptic |-> <<>>, severity |-> <<>>, status |-> <<>>]

(***************************************************************************)
(* The completion service and the agent functions.                         *)
(* A handler's log is the sequence of what it did at the service boundary: *)
(* a call issued, a call returned, an exception raised.                    *)
(***************************************************************************)

Key == <<"k">>

AgentNames == {"Analyzer", "Perspective", "Skeptic"}

CallEv(agent, args) == [ev |-> "call", agent |-> agent, args |-> args]
RetEv(agent, out) == [ev |-> "ret", agent |-> agent, out |-> out]
ExcEv(agent, e) == [ev |-> "exc", agent |-> agent, exc |-> e]

\* run_skeptic before its request: the client is constructed from the
\* environment's key (the constructor raises when there is none), then the
\* persona prompt file is read.
run_skeptic_setup(promptOk) ==
    IF apiKey = NoneText THEN OpenAIError
    ELSE IF ~promptOk THEN PromptError
    ELSE NoError

\* agents/analyzer.py and agents/perspective.py: each agent is one templated
\* completion call with its persona prompt, as run_skeptic is.
run_analyzer_setup(promptOk) ==
    IF apiKey = NoneText THEN OpenAIError
    ELSE IF ~promptOk THEN PromptError
    ELSE NoError

run_perspective_agent_setup(promptOk) ==
    IF apiKey = NoneText THEN OpenAIError
    ELSE IF ~promptOk THEN PromptError
    ELSE NoError

AgentSetupError(agent, promptOk) ==
    CASE agent = "Analyzer" -> run_analyzer_setup(promptOk)
      [] agent = "Perspective" -> run_perspective_agent_setup(promptOk)
      [] agent = "Skeptic" -> run_skeptic_setup(promptOk)

\* build_debate_transcript before its request: the client only, the prompt
\* is a constant of the module.
DebateSetupError == IF apiKey = NoneText THEN OpenAIError ELSE NoError

\* resp.choices[0].message.content.strip()
Completion(raw) == Strip(raw)

(***************************************************************************)
(* app.py: run_full_analysis                                               *)
(***************************************************************************)

IdleRun ==
    [pc |-> "idle", idea |-> <<>>, model |-> "", temp |-> 0,
     analyzer_out |-> <<>>, perspective_out |-> <<>>, log |-> <<>>,
     outcome |-> "none", result |-> NoResult, exc |-> NoError]

\* BiasedTemp without the min(1.0, ...) cap.
BiasedTempNoCap(t) == t + TempBias

BiasedTemp(t) == Min(TempMax, t + TempBias)

RunAnalyzerArgs(h) ==
    [text |-> h.idea, context |-> NoneText, model |-> h.model, temp |-> h.temp]

\* RunPerspectiveArgs without the Analyzer output.
RunPerspectiveArgsNoContext(h) ==
    [text |-> h.idea, context |-> NoneText, model |-> h.model,
     temp |-> BiasedTemp(h.temp)]

RunPerspectiveArgs(h) ==
    [text |-> h.idea, context |-> h.analyzer_out, model |-> h.model,
     temp |-> BiasedTemp(h.temp)]

RunSkepticArgs(h) ==
    [text |-> h.idea, context |-> NoneText, model |-> h.model,
     temp |-> BiasedTemp(h.temp)]

\* return of a value: the function's locals are gone.
RunReturn(h, value) ==
    [h EXCEPT !.pc = "done", !.outcome = "returned", !.result = value,
              !.analyzer_out = <<>>, !.perspective_out = <<>>]

\* RunExcept issuing the failed agent's request once more after the first
\* failure of a run.
RunExceptRetryOnce(h, agent, e) ==
    IF agent \in AgentNames /\ SelectSeq(h.log, LAMBDA x : x.ev = "exc") = <<>>
    THEN [h EXCEPT !.pc = agent,
                   !.log = Append(Append(@, ExcEv(agent, e)),
                                  CallEv(agent, RunAnalyzerArgs(h)))]
    ELSE RunReturn([h EXCEPT !.log = Append(@, ExcEv(agent, e))], ErrorResult(e))

\* except Exception as e: the error result.
RunExcept(h, agent, e) ==
    RunReturn([h EXCEPT !.log = Append(@, ExcEv(agent, e))], ErrorResult(e))

\* One agent function called inside the try block, up to its request.
RunCall(h, agent, args, promptOk) ==
    IF AgentSetupError(agent, promptOk) # NoError
    THEN RunExcept(h, agent, AgentSetupError(agent, promptOk))
    ELSE [h EXCEPT !.pc = agent, !.log = Append(@, CallEv(agent, args))]

RunBegin(idea, m, t, promptOk) ==
    LET h == [IdleRun EXCEPT !.idea = idea, !.model = m, !.temp = t] IN
    IF IsBlank(idea) THEN RunReturn(h, BlankResult)
    ELSE RunCall(h, "Analyzer", RunAnalyzerArgs(h), promptOk)

RunAfterAnalyzer(h, raw, promptOk) ==
    LET out == Completion(raw)
        g == [h EXCEPT !.analyzer_out = out,
                       !.log = Append(@, RetEv("Analyzer", out))]
    IN RunCall(g, "Perspective", RunPerspectiveArgs(g), promptOk)

RunAfterPerspective(h, raw, promptOk) ==
    LET out == Completion(raw)
        g == [h EXCEPT !.perspective_out = out,
                       !.log = Append(@, RetEv("Perspective", out))]
    IN RunCall(g, "Skeptic", RunSkepticArgs(g), promptOk)

RunAfterSkeptic(h, raw, templateOk) ==
    LET out == Completion(raw)
        g == [h EXCEPT !.log = Append(@, RetEv("Skeptic", out))]
    IN IF ~templateOk THEN RunExcept(g, "Composer", TemplateError)
       ELSE RunReturn(g, SuccessResult(h.analyzer_out, h.perspective_out, out))

(***************************************************************************)
(* app.py: debate_view, utils/debate.py: build_debate_transcript           *)
(***************************************************************************)

IdleDebate ==
    [pc |-> "idle", idea |-> <<>>, model |-> "", temp |-> 0,
     analyzer_out |-> <<>>, perspective_out |-> <<>>, log |-> <<>>,
     outcome |-> "none", result |-> <<>>, exc |-> NoError]

DebateAnalyzerArgs(h) ==
    [text |-> h.idea, context |-> NoneText, model |-> h.model, temp |-> h.temp]

\* DebatePerspectiveArgs with the bias run_full_analysis applies.
DebatePerspectiveArgsBiased(h) ==
    [text |-> h.idea, context |-> h.analyzer_out, model |-> h.model,
     temp |-> BiasedTemp(h.temp)]

DebatePerspectiveArgs(h) ==
    [text |-> h.idea, context |-> h.analyzer_out, model |-> h.model,
     temp |-> h.temp]

DebateSkepticArgs(h) ==
    [text |-> h.idea, context |-> NoneText, model |-> h.model,
     temp |-> BiasedTemp(h.temp)]

\* build_debate_transcript's request: the user content and the settings.
DebateContent(text, analyzer, perspective, skeptic) ==
    <<"USER_TEXT:">> \o text \o <<"ANALYZER_OUTPUT:">> \o analyzer
    \o <<"PERSPECTIVE_OUTPUT:">> \o perspective
    \o <<"SKEPTIC_OUTPUT:">> \o skeptic

\* DebateSynthArgs taking the Analyzer and Perspective outputs of the
\* analysis run of the same click instead of this invocation's.
DebateSynthArgsFromRun(h, skeptic) ==
    [content |-> DebateContent(h.idea, run.result.analyzer, run.result.perspective, skeptic),
     model |-> h.model, temp |-> DebateDefaultTemp]

DebateSynthArgs(h, skeptic) ==
    [content |-> DebateContent(h.idea, h.analyzer_out, h.perspective_out, skeptic),
     model |-> h.model, temp |-> DebateDefaultTemp]

DebateReturn(h, value) ==
    [h EXCEPT !.pc = "done", !.outcome = "returned", !.result = value,
              !.analyzer_out = <<>>, !.perspective_out = <<>>]

\* debate_view has no try block: an exception leaves the function.
DebateRaise(h, agent, e) ==
    [h EXCEPT !.pc = "done", !.outcome = "raised", !.exc = e,
              !.log = Append(@, ExcEv(agent, e)),
              !.analyzer_out = <<>>, !.perspective_out = <<>>]

DebateCall(h, agent, args, setupError) ==
    IF setupError # NoError THEN DebateRaise(h, agent, setupError)
    ELSE [h EXCEPT !.pc = agent, !.log = Append(@, CallEv(agent, args))]

DebateBegin(idea, m, t, promptOk) ==
    LET h == [IdleDebate EXCEPT !.idea = idea, !.model = m, !.temp = t] IN
    IF IsBlank(idea) THEN DebateReturn(h, WarnNoIdeaDebate)
    ELSE DebateCall(h, "Analyzer", DebateAnalyzerArgs(h),
                    AgentSetupError("Analyzer", promptOk))

DebateAfterAnalyzer(h, raw, promptOk) ==
    LET out == Completion(raw)
        g == [h EXCEPT !.analyzer_out = out,
                       !.log = Append(@, RetEv("Analyzer", out))]
    IN DebateCall(g, "Perspective", DebatePerspectiveArgs(g),
                  AgentSetupError("Perspective", promptOk))

DebateAfterPerspective(h, raw, promptOk) ==
    LET out == Completion(raw)
        g == [h EXCEPT !.perspective_out = out,
                       !.log = Append(@, RetEv("Perspective", out))]
    IN DebateCall(g, "Skeptic", DebateSkepticArgs(g),
                  AgentSetupError("Skeptic", promptOk))

\* DebateAfterSkeptic returning without the Debate Synthesizer request.
DebateAfterSkepticNoSynth(h, raw) ==
    DebateReturn([h EXCEPT !.log = Append(@, RetEv("Skeptic", Completion(raw)))],
                 Completion(raw))

DebateAfterSkeptic(h, raw) ==
    LET out == Completion(raw)
        g == [h EXCEPT !.log = Append(@, RetEv("Skeptic", out))]
    IN DebateCall(g, "Debate", DebateSynthArgs(g, out), DebateSetupError)

DebateAfterSynth(h, raw) ==
    DebateReturn([h EXCEPT !.log = Append(@, RetEv("Debate", Completion(raw)))],
                 Completion(raw))

(***************************************************************************)
(* app.py: compare_ideas                                                   *)
(***************************************************************************)

IdleCompare ==
    [pc |-> "idle", idea_a |-> <<>>, idea_b |-> <<>>, model |-> "", temp |-> 0,
     log |-> <<>>, outcome |-> "none", result |-> <<>>, exc |-> NoError]

\* f"IDEA A:\n{idea_a}\n\nIDEA B:\n{idea_b}"
CompareContent(idea_a, idea_b) ==
    <<"IDEA A:">> \o idea_a \o <<"IDEA B:">> \o idea_b

CompareArgs(h) ==
    [content |-> CompareContent(h.idea_a, h.idea_b), model |-> h.model,
     temp |-> h.temp]

CompareReturn(h, value) ==
    [h EXCEPT !.pc = "done", !.outcome = "returned", !.result = value]

CompareRaise(h, e) ==
    [h EXCEPT !.pc = "done", !.outcome = "raised", !.exc = e,
              !.log = Append(@, ExcEv("Compare", e))]

\* CompareBegin testing the credential before the two texts.
CompareBeginKeyFirst(idea_a, idea_b, m, t) ==
    LET h == [IdleCompare EXCEPT !.idea_a = idea_a, !.idea_b = idea_b,
                                 !.model = m, !.temp = t]
    IN IF apiKey = NoneText THEN CompareReturn(h, MsgKeyMissing)
       ELSE IF IsBlank(idea_a) \/ IsBlank(idea_b) THEN CompareReturn(h, WarnBothIdeas)
       ELSE [h EXCEPT !.pc = "Compare",
                      !.log = Append(@, CallEv("Compare", CompareArgs(h)))]

CompareBegin(idea_a, idea_b, m, t) ==
    LET h == [IdleCompare EXCEPT !.idea_a = idea_a, !.idea_b = idea_b,
                                 !.model = m, !.temp = t]
    IN IF IsBlank(idea_a) \/ IsBlank(idea_b) THEN CompareReturn(h, WarnBothIdeas)
       ELSE IF apiKey = NoneText THEN CompareReturn(h, MsgKeyMissing)
       ELSE [h EXCEPT !.pc = "Compare",
                      !.log = Append(@, CallEv("Compare", CompareArgs(h)))]

CompareAfterCall(h, raw) ==
    CompareReturn([h EXCEPT !.log = Append(@, RetEv("Compare", Completion(raw)))],
                  Completion(raw))

(***************************************************************************)
(* app.py, sl_app.py: render_severity_bars over what the estimator may     *)
(* return.                                                                 *)
(***************************************************************************)

MaxBars == 2
\* Results of the estimator: the fixed mapping, mappings of up to MaxBars
\* items whose scores are numbers inside and outside 0..100, texts, None,
\* NaN and the infinities, and results that are no mapping (None, a list).
EstimatorResults ==
    LET labels == <<"Risks", "Evidence", "Fragility">>
        scores ==
            {IntScore(n) : n \in {-1, 0, 70, 100, 101, 150}}
            \cup {FloatScore(h) : h \in {-1, 1, 3, 199, 201}}
            \cup {StrScore(t) : t \in {"abc", "", "150", "42.5", "nan"}}
            \cup {SpecialScore(t) : t \in {"None", "nan", "inf", "-inf"}}
    IN {build_severity_bars}
       \cup {Dict([i \in 1..n |-> [label |-> labels[i], score |-> sc[i]]]) :
                 n \in 0..MaxBars, sc \in [1..MaxBars -> scores]}
       \cup {[kind |-> "None", items |-> <<>>], [kind |-> "list", items |-> <<>>]}

IdleSev == [pc |-> "idle", data |-> Dict(<<>>), html |-> <<>>]

(***************************************************************************)
(* cli_app.py                                                              *)
(***************************************************************************)

\* Lines of standard input, each with its line end; the last line of the
\* input may lack it.
MaxLines == 2
FullLines == {<<"\n">>, <<" ", "\n">>, <<"a", "\n">>, <<" ", "a", "\n">>}
StdinInputs ==
    {<<>>}
    \cup UNION {[1..n -> FullLines] : n \in 1..MaxLines}
    \cup {Append(ls, c) : ls \in UNION {[1..n -> FullLines] : n \in 0..(MaxLines - 1)},
                          c \in {<<"b">>}}

\* line.rstrip("\n")
RECURSIVE RStripNewline(_)
RStripNewline(s) ==
    IF s = <<>> THEN <<>>
    ELSE IF s[Len(s)] = "\n" THEN RStripNewline(SubSeq(s, 1, Len(s) - 1))
    ELSE s

\* The loop of read_user_text: lines are kept up to the first blank one.
RECURSIVE KeptLines(_)
KeptLines(lines) ==
    IF lines = <<>> THEN <<>>
    ELSE IF Strip(Head(lines)) = <<>> THEN <<>>
    ELSE <<RStripNewline(Head(lines))>> \o KeptLines(Tail(lines))

\* "\n".join(lines)
RECURSIVE JoinLines(_)
JoinLines(lines) ==
    IF lines = <<>> THEN <<>>
    ELSE IF Len(lines) = 1 THEN Head(lines)
    ELSE Head(lines) \o <<"\n">> \o JoinLines(Tail(lines))

read_user_text(stdin) == Strip(JoinLines(KeptLines(stdin)))

\* The three fixed texts of the CLI report; they are not the texts of the
\* browser front-ends.
generate_summary == <<"E">>
generate_top_three == <<"T">>
generate_recommendations == <<"R">>

\* The defaults of the agent functions: model_name="gpt-4o-mini",
\* temperature=0.5.
AgentDefaultTemp == 10

CliAgentArgs(text, context) ==
    [text |-> text, context |-> context, model |-> "gpt-4o-mini",
     temp |-> AgentDefaultTemp]

\* What the process has printed to standard output, item by item.
CliStep(agent) ==
    CASE agent = "Analyzer" -> <<"\n", "[1/4] Running Analyzer Agent...">>
      [] agent = "Perspective" -> <<"[2/4] Running Perspective Agent...">>
      [] agent = "Skeptic" -> <<"[3/4] Running Skeptic Agent...">>
      [] agent = "Composer" -> <<"[4/4] Building final report...">>

NoFile == <<"<NoFile>">>

\* exit: "running" until the process ends, then its exit status.
IdleCli ==
    [pc |-> "idle", stdin |-> <<>>, user_text |-> <<>>,
     analyzer_out |-> <<>>, perspective_out |-> <<>>, log |-> <<>>,
     stdout |-> <<>>, exit |-> "running", exc |-> NoError]

\* main returns: the interpreter exits with status 0.
CliReturn(p) ==
    [p EXCEPT !.pc = "done", !.exit = "0",
              !.analyzer_out = <<>>, !.perspective_out = <<>>]

\* main has no try block: an exception ends the process with a traceback
\* on standard error and exit status 1.
CliRaise(p, agent, e) ==
    [p EXCEPT !.pc = "done", !.exit = "1", !.exc = e,
              !.log = Append(@, ExcEv(agent, e)),
              !.analyzer_out = <<>>, !.perspective_out = <<>>]

\* The progress line, then the agent function up to its request.
CliCall(p, agent, args, promptOk) ==
    LET q == [p EXCEPT !.stdout = Append(@, CliStep(agent))] IN
    IF AgentSetupError(agent, promptOk) # NoError
    THEN CliRaise(q, agent, AgentSetupError(agent, promptOk))
    ELSE [q EXCEPT !.pc = agent, !.log = Append(@, CallEv(agent, args))]

CliBegin(stdin, promptOk) ==
    LET p == [IdleCli EXCEPT !.stdin = stdin,
                             !.user_text = read_user_text(stdin),
                             !.stdout = <<<<"BLIND SPOT FINDER - Multi-Agent CLI">>, <<"Paste your idea, plan, or argument below.">>>>]
    IN IF p.user_text = <<>>
       THEN CliReturn([p EXCEPT !.stdout = Append(@, <<"No input provided.">>)])
       ELSE CliCall(p, "Analyzer", CliAgentArgs(p.user_text, NoneText), promptOk)

CliAfterAnalyzer(p, raw, promptOk) ==
    LET out == Completion(raw)
        q == [p EXCEPT !.analyzer_out = out,
                       !.log = Append(@, RetEv("Analyzer", out))]
    IN CliCall(q, "Perspective", CliAgentArgs(q.user_text, out), promptOk)

CliAfterPerspective(p, raw, promptOk) ==
    LET out == Completion(raw)
        q == [p EXCEPT !.perspective_out = out,
                       !.log = Append(@, RetEv("Perspective", out))]
    IN CliCall(q, "Skeptic", CliAgentArgs(q.user_text, NoneText), promptOk)

\* The report main composes from the three outputs.
CliReport(a, p, s) ==
    build_report(a, p, s, generate_summary, generate_top_three,
                 generate_recommendations)

\* The process after the Skeptic's answer: the report is composed (the
\* template file may be missing), printed, written and announced.
CliAfterSkeptic(p, raw, templateOk) ==
    LET out == Completion(raw)
        q == [p EXCEPT !.log = Append(@, RetEv("Skeptic", out)),
                       !.stdout = Append(@, CliStep("Composer"))]
    IN IF ~templateOk THEN CliRaise(q, "Composer", TemplateError)
       ELSE CliReturn([q EXCEPT !.stdout =
                @ \o <<(<<"\n">> \o CliReport(p.analyzer_out, p.perspective_out, out)),
                       <<"\n", "Saved to blind_spot_report.txt">>>>])

\* CliFileAfter opening the file for appending.
CliFileAfterAppend(p, raw, templateOk, before) ==
    IF ~templateOk THEN before
    ELSE IF before = NoFile
    THEN CliReport(p.analyzer_out, p.perspective_out, Completion(raw))
    ELSE before \o CliReport(p.analyzer_out, p.perspective_out, Completion(raw))

\* open("blind_spot_report.txt", "w") and f.write(report): the file after
\* the process ran past the Skeptic's answer.
CliFileAfter(p, raw, templateOk, before) ==
    IF templateOk THEN CliReport(p.analyzer_out, p.perspective_out, Completion(raw))
    ELSE before

(***************************************************************************)
(* sl_app.py: the Streamlit script.  run_full_analysis is the function of  *)
(* app.py without the status item of its result; debate_view is the same   *)
(* function.                                                               *)
(***************************************************************************)

\* An invocation of sl_app.py's run_full_analysis: its result has the five
\* items report, analyzer, perspective, skeptic, severity.
SlOf(h) ==
    [h EXCEPT !.result =
        [report |-> @.report, analyzer |-> @.analyzer,
         perspective |-> @.perspective, skeptic |-> @.skeptic,
         severity |-> @.severity]]


\* init_session_state
SlSession0 ==
    [last_report |-> <<>>, last_analyzer |-> <<>>, last_perspective |-> <<>>,
     last_skeptic |-> <<>>, last_severity_html |-> <<>>, last_debate |-> <<>>]

\* idea_a[:200]
HistoryCut == 200
Cut(s, n) == SubSeq(s, 1, Min(n, Len(s)))

\* The history is capped in the model: a button is pressed only while the
\* history holds fewer than MaxHistory items.
MaxHistory == 1

\* What a text area holds: a text, never None.
SlIdeas == Ideas \ {NoneText}

\* One run of the script: the button pressed, the widgets' values, the two
\* invocations it makes, the status placeholder, how the script run ended
\* ("rendered" or "raised"), and the session state, which outlives the run.
IdleSl ==
    [pc |-> "idle", button |-> "", idea |-> <<>>, model |-> "", temp |-> 0,
     run |-> SlOf(IdleRun), debate |-> IdleDebate, status |-> <<>>,
     outcome |-> "none", exc |-> NoError,
     session |-> SlSession0, history |-> <<>>]

\* The script after debate_view ended: an exception leaves main (nothing
\* below the call runs); a transcript is stored, and the run button's
\* branch appends to the history and shows its success status.
SlAfterDebate(s) ==
    IF s.debate.pc # "done" THEN s
    ELSE IF s.debate.outcome = "raised"
    THEN [s EXCEPT !.pc = "done", !.outcome = "raised", !.exc = s.debate.exc]
    ELSE IF s.button = "run"
    THEN [s EXCEPT !.pc = "done", !.outcome = "rendered",
                   !.session.last_debate = s.debate.result,
                   !.history = Append(@, Cut(s.idea, HistoryCut)),
                   !.status = <<"(ok) Multi-agent analysis complete.">>]
    ELSE [s EXCEPT !.pc = "done", !.outcome = "rendered",
                   !.session.last_debate = s.debate.result,
                   !.status = <<"(ok) Debate generated.">>]

\* The run button's branch after run_full_analysis returned: the five
\* items go to the session state and debate_view is called.
SlAfterRun(s, promptOk) ==
    IF s.run.pc # "done" THEN s
    ELSE SlAfterDebate(
            [s EXCEPT !.pc = "debate",
                      !.session.last_report = s.run.result.report,
                      !.session.last_analyzer = s.run.result.analyzer,
                      !.session.last_perspective = s.run.result.perspective,
                      !.session.last_skeptic = s.run.result.skeptic,
                      !.session.last_severity_html = s.run.result.severity,
                      !.debate = DebateBegin(s.idea, s.model, s.temp, promptOk)])

\* if run_btn:
SlRunButton(s, idea, m, t, promptOk, debatePromptOk) ==
    LET b == [s EXCEPT !.button = "run", !.idea = idea, !.model = m, !.temp = t]
    IN IF Strip(idea) = <<>>
       THEN [b EXCEPT !.pc = "done", !.outcome = "rendered", !.status = <<"Please provide an idea for Analysis (Idea A).">>]
       ELSE SlAfterRun([b EXCEPT !.pc = "run", !.status = <<"Running multi-agent analysis...">>,
                                 !.run = SlOf(RunBegin(idea, m, t, promptOk))],
                       debatePromptOk)

\* if debate_btn:
SlDebateButton(s, idea, m, t, promptOk) ==
    LET b == [s EXCEPT !.button = "debate", !.idea = idea, !.model = m, !.temp = t]
    IN IF Strip(idea) = <<>>
       THEN [b EXCEPT !.pc = "done", !.outcome = "rendered",
                      !.status = <<"Please provide an idea (Idea A) for debate.">>]
       ELSE SlAfterDebate([b EXCEPT !.pc = "debate", !.status = <<"Generating debate transcript...">>,
                                    !.debate = DebateBegin(idea, m, t, promptOk)])

(***************************************************************************)
(* The state machine.  One user action at a time: the handlers of an       *)
(* action run to their end and their outputs are rendered (Rendered)       *)
(* before the next click; a click starts fresh invocations, which share    *)
(* nothing with earlier ones but the environment.                          *)
(***************************************************************************)

Resting(h) == h.pc \in {"idle", "done"}
Quiescent == Resting(run) /\ Resting(debate) /\ Resting(compare)
AllIdle == run.pc = "idle" /\ debate.pc = "idle" /\ compare.pc = "idle"

Init ==
    /\ apiKey \in {NoneText, Key}
    /\ run = IdleRun
    /\ debate = IdleDebate
    /\ compare = IdleCompare
    /\ sev = IdleSev
    /\ cli = IdleCli
    /\ file = NoFile
    /\ sl = IdleSl

\* run_btn.click: both listeners of the button, run_full_analysis and
\* debate_view, start with the same inputs.
ClickRun(T) ==
    \E idea \in Ideas, m \in Models, t \in T, pr \in BOOLEAN, pd \in BOOLEAN :
        /\ AllIdle
        /\ run' = RunBegin(idea, m, t, pr)
        /\ debate' = DebateBegin(idea, m, t, pd)
        /\ UNCHANGED <<apiKey, compare, otherVars>>

\* compare_btn.click
ClickCompare(T) ==
    \E a \in Ideas, b \in Ideas, m \in Models, t \in T :
        /\ AllIdle
        /\ compare' = CompareBegin(a, b, m, t)
        /\ UNCHANGED <<apiKey, run, debate, otherVars>>

RunAnalyzerReturns(texts) ==
    \E raw \in texts, ok \in BOOLEAN :
        /\ run.pc = "Analyzer"
        /\ run' = RunAfterAnalyzer(run, raw, ok)
        /\ UNCHANGED <<apiKey, debate, compare, otherVars>>

RunPerspectiveReturns(texts) ==
    \E raw \in texts, ok \in BOOLEAN :
        /\ run.pc = "Perspective"
        /\ run' = RunAfterPerspective(run, raw, ok)
        /\ UNCHANGED <<apiKey, debate, compare, otherVars>>

RunSkepticReturns(texts) ==
    \E raw \in texts, ok \in BOOLEAN :
        /\ run.pc = "Skeptic"
        /\ run' = RunAfterSkeptic(run, raw, ok)
        /\ UNCHANGED <<apiKey, debate, compare, otherVars>>

\* The outstanding request fails: the exception reaches the except clause.
RunCallFails ==
    \E e \in NetErrors :
        /\ run.pc \in AgentNames
        /\ run' = RunExcept(run, run.pc, e)
        /\ UNCHANGED <<apiKey, debate, compare, otherVars>>

DebateAnalyzerReturns(texts) ==
    \E raw \in texts, ok \in BOOLEAN :
        /\ debate.pc = "Analyzer"
        /\ debate' = DebateAfterAnalyzer(debate, raw, ok)
        /\ UNCHANGED <<apiKey, run, compare, otherVars>>

DebatePerspectiveReturns(texts) ==
    \E raw \in texts, ok \in BOOLEAN :
        /\ debate.pc = "Perspective"
        /\ debate' = DebateAfterPerspective(debate, raw, ok)
        /\ UNCHANGED <<apiKey, run, compare, otherVars>>

DebateSkepticReturns(texts) ==
    \E raw \in texts :
        /\ debate.pc = "Skeptic"
        /\ debate' = DebateAfterSkeptic(debate, raw)
        /\ UNCHANGED <<apiKey, run, compare, otherVars>>

DebateSynthReturns(texts) ==
    \E raw \in texts :
        /\ debate.pc = "Debate"
        /\ debate' = DebateAfterSynth(debate, raw)
        /\ UNCHANGED <<apiKey, run, compare, otherVars>>

DebateCallFails ==
    \E e \in NetErrors :
        /\ debate.pc \in AgentNames \cup {"Debate"}
        /\ debate' = DebateRaise(debate, debate.pc, e)
        /\ UNCHANGED <<apiKey, run, compare, otherVars>>

CompareReturns(texts) ==
    \E raw \in texts :
        /\ compare.pc = "Compare"
        /\ compare' = CompareAfterCall(compare, raw)
        /\ UNCHANGED <<apiKey, run, debate, otherVars>>

CompareCallFails ==
    \E e \in NetErrors :
        /\ compare.pc = "Compare"
        /\ compare' = CompareRaise(compare, e)
        /\ UNCHANGED <<apiKey, run, debate, otherVars>>

\* The action's handlers have returned (or raised) and the front-end has
\* shown their outputs: the invocations are over.
Rendered ==
    /\ Quiescent
    /\ ~AllIdle
    /\ run' = IdleRun
    /\ debate' = IdleDebate
    /\ compare' = IdleCompare
    /\ UNCHANGED <<apiKey, otherVars>>

\* The next-state relation over the temperatures T the slider may hold, the
\* texts the service may return to the analysis run (runTexts) and to the
\* debate and the comparison (otherTexts).
NextOver(T, runTexts, otherTexts) ==
    \/ ClickRun(T)
    \/ ClickCompare(T)
    \/ RunAnalyzerReturns(runTexts)
    \/ RunPerspectiveReturns(runTexts)
    \/ RunSkepticReturns(runTexts)
    \/ RunCallFails
    \/ DebateAnalyzerReturns(otherTexts)
    \/ DebatePerspectiveReturns(otherTexts)
    \/ DebateSkepticReturns(otherTexts)
    \/ DebateSynthReturns(otherTexts)
    \/ DebateCallFails
    \/ CompareReturns(otherTexts)
    \/ CompareCallFails
    \/ Rendered

Next == NextOver(Temps, ServiceTexts, DebateTexts)

Spec == Init /\ [][Next]_vars

\* Every position of the temperature slider, with one text per request.
NextAllTemps == NextOver(AllTemps, {<<"a">>}, {<<"c">>})

SpecAllTemps == Init /\ [][NextAllTemps]_vars

(***************************************************************************)
(* The analysis run under fair scheduling: a request that is outstanding   *)
(* is eventually answered or fails (the client's call returns or raises).  *)
(***************************************************************************)

\* Raw completion texts the service may return to a request of the pipeline.
AnswerTexts == {<<"a">>, <<" ", "a">>, Tok("S")}

RunStep ==
    \/ RunAnalyzerReturns(AnswerTexts)
    \/ RunPerspectiveReturns(AnswerTexts)
    \/ RunSkepticReturns(AnswerTexts)
    \/ RunCallFails

SpecLive ==
    Init /\ [][NextOver(Temps, AnswerTexts, {<<"c">>})]_vars /\ WF_vars(RunStep)

(***************************************************************************)
(* Severity rendering over every result of the estimator.                  *)
(***************************************************************************)

RenderSeverityBars ==
    \E data \in EstimatorResults :
        /\ sev.pc = "idle"
        /\ sev' = [pc |-> "done", data |-> data, html |-> RenderSeverity(data)]
        /\ UNCHANGED <<apiKey, run, debate, compare, cli, file, sl>>

SeverityShown ==
    /\ sev.pc = "done"
    /\ sev' = IdleSev
    /\ UNCHANGED <<apiKey, run, debate, compare, cli, file, sl>>

SpecSeverity == Init /\ [][RenderSeverityBars \/ SeverityShown]_vars

(***************************************************************************)
(* The CLI: one process at a time; the report file outlives the process.   *)
(***************************************************************************)

InitCli ==
    /\ apiKey \in {NoneText, Key}
    /\ run = IdleRun
    /\ debate = IdleDebate
    /\ compare = IdleCompare
    /\ sev = IdleSev
    /\ cli = IdleCli
    /\ file \in {NoFile, <<"o", "l", "d">>}
    /\ sl = IdleSl

\* python cli_app.py: main up to its first request, or to its end.
CliStart(inputs, oks) ==
    \E stdin \in inputs, ok \in oks :
        /\ cli.pc = "idle"
        /\ cli' = CliBegin(stdin, ok)
        /\ UNCHANGED <<apiKey, run, debate, compare, sev, file, sl>>

CliAnalyzerReturns(texts, oks) ==
    \E raw \in texts, ok \in oks :
        /\ cli.pc = "Analyzer"
        /\ cli' = CliAfterAnalyzer(cli, raw, ok)
        /\ UNCHANGED <<apiKey, run, debate, compare, sev, file, sl>>

CliPerspectiveReturns(texts, oks) ==
    \E raw \in texts, ok \in oks :
        /\ cli.pc = "Perspective"
        /\ cli' = CliAfterPerspective(cli, raw, ok)
        /\ UNCHANGED <<apiKey, run, debate, compare, sev, file, sl>>

CliSkepticReturns(texts, oks) ==
    \E raw \in texts, ok \in oks :
        /\ cli.pc = "Skeptic"
        /\ cli' = CliAfterSkeptic(cli, raw, ok)
        /\ file' = CliFileAfter(cli, raw, ok, file)
        /\ UNCHANGED <<apiKey, run, debate, compare, sev, sl>>

\* The outstanding request fails: the exception leaves main.
CliCallFails ==
    \E e \in NetErrors :
        /\ cli.pc \in AgentNames
        /\ cli' = CliRaise(cli, cli.pc, e)
        /\ UNCHANGED <<apiKey, run, debate, compare, sev, file, sl>>

\* The process is over; the file stays.
CliExited ==
    /\ cli.pc = "done"
    /\ cli' = IdleCli
    /\ UNCHANGED <<apiKey, run, debate, compare, sev, file, sl>>

NextCli ==
    \/ CliStart(StdinInputs, BOOLEAN)
    \/ CliAnalyzerReturns(AnswerTexts, BOOLEAN)
    \/ CliPerspectiveReturns(AnswerTexts, BOOLEAN)
    \/ CliSkepticReturns(AnswerTexts, BOOLEAN)
    \/ CliCallFails
    \/ CliExited

SpecCli == InitCli /\ [][NextCli]_vars

(***************************************************************************)
(* The Streamlit script: one script run per button press; the session      *)
(* state outlives the script run.                                          *)
(***************************************************************************)


SlClickRun(T) ==
    \E idea \in SlIdeas, m \in Models, t \in T, pr \in BOOLEAN, pd \in BOOLEAN :
        /\ sl.pc = "idle"
        /\ Len(sl.history) < MaxHistory
        /\ sl' = SlRunButton(sl, idea, m, t, pr, pd)
        /\ UNCHANGED <<apiKey, run, debate, compare, sev, cli, file>>

SlClickDebate(T) ==
    \E idea \in SlIdeas, m \in Models, t \in T, pd \in BOOLEAN :
        /\ sl.pc = "idle"
        /\ Len(sl.history) < MaxHistory
        /\ sl' = SlDebateButton(sl, idea, m, t, pd)
        /\ UNCHANGED <<apiKey, run, debate, compare, sev, cli, file>>

SlRunAnalyzerReturns(texts, oks) ==
    \E raw \in texts, ok \in oks, pd \in BOOLEAN :
        /\ sl.pc = "run" /\ sl.run.pc = "Analyzer"
        /\ sl' = SlAfterRun([sl EXCEPT !.run = SlOf(RunAfterAnalyzer(sl.run, raw, ok))], pd)
        /\ UNCHANGED <<apiKey, run, debate, compare, sev, cli, file>>

SlRunPerspectiveReturns(texts, oks) ==
    \E raw \in texts, ok \in oks, pd \in BOOLEAN :
        /\ sl.pc = "run" /\ sl.run.pc = "Perspective"
        /\ sl' = SlAfterRun([sl EXCEPT !.run = SlOf(RunAfterPerspective(sl.run, raw, ok))], pd)
        /\ UNCHANGED <<apiKey, run, debate, compare, sev, cli, file>>

SlRunSkepticReturns(texts, oks) ==
    \E raw \in texts, ok \in oks, pd \in BOOLEAN :
        /\ sl.pc = "run" /\ sl.run.pc = "Skeptic"
        /\ sl' = SlAfterRun([sl EXCEPT !.run = SlOf(RunAfterSkeptic(sl.run, raw, ok))], pd)
        /\ UNCHANGED <<apiKey, run, debate, compare, sev, cli, file>>

\* The outstanding request of run_full_analysis fails: its except clause
\* returns the error result and the script goes on.
SlRunCallFails ==
    \E e \in NetErrors, pd \in BOOLEAN :
        /\ sl.pc = "run" /\ sl.run.pc \in AgentNames
        /\ sl' = SlAfterRun([sl EXCEPT !.run = SlOf(RunExcept(sl.run, sl.run.pc, e))], pd)
        /\ UNCHANGED <<apiKey, run, debate, compare, sev, cli, file>>

SlDebateAnalyzerReturns(texts) ==
    \E raw \in texts, ok \in BOOLEAN :
        /\ sl.pc = "debate" /\ sl.debate.pc = "Analyzer"
        /\ sl' = SlAfterDebate([sl EXCEPT !.debate = DebateAfterAnalyzer(sl.debate, raw, ok)])
        /\ UNCHANGED <<apiKey, run, debate, compare, sev, cli, file>>

SlDebatePerspectiveReturns(texts) ==
    \E raw \in texts, ok \in BOOLEAN :
        /\ sl.pc = "debate" /\ sl.debate.pc = "Perspective"
        /\ sl' = SlAfterDebate([sl EXCEPT !.debate = DebateAfterPerspective(sl.debate, raw, ok)])
        /\ UNCHANGED <<apiKey, run, debate, compare, sev, cli, file>>

SlDebateSkepticReturns(texts) ==
    \E raw \in texts :
        /\ sl.pc = "debate" /\ sl.debate.pc = "Skeptic"
        /\ sl' = SlAfterDebate([sl EXCEPT !.debate = DebateAfterSkeptic(sl.debate, raw)])
        /\ UNCHANGED <<apiKey, run, debate, compare, sev, cli, file>>

SlDebateSynthReturns(texts) ==
    \E raw \in texts :
        /\ sl.pc = "debate" /\ sl.debate.pc = "Debate"
        /\ sl' = SlAfterDebate([sl EXCEPT !.debate = DebateAfterSynth(sl.debate, raw)])
        /\ UNCHANGED <<apiKey, run, debate, compare, sev, cli, file>>

SlDebateCallFails ==
    \E e \in NetErrors :
        /\ sl.pc = "debate" /\ sl.debate.pc \in AgentNames \cup {"Debate"}
        /\ sl' = SlAfterDebate([sl EXCEPT !.debate = DebateRaise(sl.debate, sl.debate.pc, e)])
        /\ UNCHANGED <<apiKey, run, debate, compare, sev, cli, file>>

SlDebateSteps(debateTexts) ==
    \/ SlDebateAnalyzerReturns(debateTexts)
    \/ SlDebatePerspectiveReturns(debateTexts)
    \/ SlDebateSkepticReturns(debateTexts)
    \/ SlDebateSynthReturns(debateTexts)
    \/ SlDebateCallFails

\* The script run is over and the page is shown; the next button press runs
\* the script again with the same session state.
SlRerun ==
    /\ sl.pc = "done"
    /\ sl' = [IdleSl EXCEPT !.session = sl.session, !.history = sl.history]
    /\ UNCHANGED <<apiKey, run, debate, compare, sev, cli, file>>

\* The steps of a Streamlit script run that follow the button press.
SlSteps(runTexts, debateTexts) ==
    \/ SlRunAnalyzerReturns(runTexts, BOOLEAN)
    \/ SlRunPerspectiveReturns(runTexts, BOOLEAN)
    \/ SlRunSkepticReturns(runTexts, BOOLEAN)
    \/ SlRunCallFails
    \/ SlDebateSteps(debateTexts)


NextStreamlit ==
    \/ SlClickRun({8})
    \/ SlClickDebate({8})
    \/ SlSteps(AnswerTexts, {<<"c">>})
    \/ SlRerun

SpecStreamlit == Init /\ [][NextStreamlit]_vars

(***************************************************************************)
(* The three front-ends given the same subject and settings, one after     *)
(* the other, in the same environment and against the same answers of the  *)
(* service: the Gradio listener run_full_analysis goes first, and what it  *)
(* met (each agent's answer or failure, a missing prompt or template file)  *)
(* is what the Streamlit run button and the CLI process meet at the same   *)
(* agent.  The CLI reads the subject from standard input.                  *)
(***************************************************************************)


\* The subject typed into the CLI: the text, Enter, and Enter again on an
\* empty line.
StdinOf(idea) == <<idea \o <<"\n">>, <<"\n">>>>

\* What the Gradio run met at an agent.
MetAnswers(agent) ==
    {run.log[i].out : i \in {j \in DOMAIN run.log :
                                 run.log[j].ev = "ret" /\ run.log[j].agent = agent}}
MetFailure(agent) ==
    \E i \in DOMAIN run.log :
        /\ run.log[i].ev = "exc" /\ run.log[i].agent = agent
        /\ run.log[i].exc \in NetErrors
MetFileOk(agent) ==
    {~\E i \in DOMAIN run.log :
          /\ run.log[i].ev = "exc" /\ run.log[i].agent = agent
          /\ run.log[i].exc \in {PromptError, TemplateError}}

FrontsDone == run.pc = "done" /\ cli.pc = "done" /\ sl.pc = "done"

SubmitGradio ==
    \E idea \in SlIdeas, m \in Models, t \in {8, 10}, ok \in BOOLEAN :
        /\ run.pc = "idle" /\ cli.pc = "idle" /\ sl.pc = "idle"
        /\ run' = RunBegin(idea, m, t, ok)
        /\ UNCHANGED <<apiKey, debate, compare, sev, cli, file, sl>>

\* The subject and settings given to Gradio, given to Streamlit.
SubmitStreamlit ==
    \E ok \in MetFileOk("Analyzer"), pd \in BOOLEAN :
        /\ run.pc = "done" /\ sl.pc = "idle"
        /\ sl' = SlRunButton(sl, run.idea, run.model, run.temp, ok, pd)
        /\ UNCHANGED <<apiKey, run, debate, compare, sev, cli, file>>

\* The same subject typed into the CLI.
SubmitCli ==
    /\ run.pc = "done" /\ sl.pc = "done"
    /\ CliStart({StdinOf(run.idea)}, MetFileOk("Analyzer"))

\* The three are over: the page is left, the browser session ends and the
\* working directory is cleared.
FrontsOver ==
    /\ FrontsDone
    /\ run' = IdleRun
    /\ cli' = IdleCli
    /\ sl' = IdleSl
    /\ file' = NoFile
    /\ UNCHANGED <<apiKey, debate, compare, sev>>

NextFronts ==
    \/ SubmitGradio
    \/ RunAnalyzerReturns(AnswerTexts)
    \/ RunPerspectiveReturns(AnswerTexts)
    \/ RunSkepticReturns(AnswerTexts)
    \/ RunCallFails
    \/ SubmitStreamlit
    \/ SlRunAnalyzerReturns(MetAnswers("Analyzer"), MetFileOk("Perspective"))
    \/ SlRunPerspectiveReturns(MetAnswers("Perspective"), MetFileOk("Skeptic"))
    \/ SlRunSkepticReturns(MetAnswers("Skeptic"), MetFileOk("Composer"))
    \/ (MetFailure(sl.run.pc) /\ SlRunCallFails)
    \/ SlDebateSteps({<<"c">>})
    \/ SubmitCli
    \/ CliAnalyzerReturns(MetAnswers("Analyzer"), MetFileOk("Perspective"))
    \/ CliPerspectiveReturns(MetAnswers("Perspective"), MetFileOk("Skeptic"))
    \/ CliSkepticReturns(MetAnswers("Skeptic"), MetFileOk("Composer"))
    \/ (MetFailure(cli.pc) /\ CliCallFails)
    \/ FrontsOver

SpecFronts == Init /\ [][NextFronts]_vars

(***************************************************************************)
(* Properties.                                                             *)
(***************************************************************************)

\* The requests a handler has issued to the completion service.
Calls(h) == SelectSeq(h.log, LAMBDA e : e.ev = "call")
NetCalls(h) == Len(Calls(h))
Excs(h) == SelectSeq(h.log, LAMBDA e : e.ev = "exc")
Rets(h) == SelectSeq(h.log, LAMBDA e : e.ev = "ret")

\* Empty, None or whitespace only.
BlankText(s) == s = NoneText \/ \A i \in DOMAIN s : s[i] = " "

ContainsToken(s) == \E tok \in Tokens : IsSubstring(tok, s)

RunSucceeded == run.pc = "done" /\ run.result.status = StatusComplete

\* The last event of the run's log is an exception raised by an agent call.
RunAgentFailed ==
    /\ run.pc = "done"
    /\ run.log # <<>>
    /\ run.log[Len(run.log)].ev = "exc"
    /\ run.log[Len(run.log)].agent \in AgentNames

\* C1: when an agent call of run_full_analysis fails, at whichever of the
\* three agents and whatever the earlier agents returned, the result holds
\* the one error message made of the exception's type and text, and its
\* analyzer, perspective, skeptic and severity fields are empty.
C1_FailedRunIsEmpty ==
    RunAgentFailed =>
        LET e == run.log[Len(run.log)].exc
            msg == <<"(error) Error during analysis: ", e.type, " - ", e.msg>>
        IN /\ run.outcome = "returned"
           /\ run.result.report = msg
           /\ run.result.status = msg
           /\ run.result.analyzer = <<>>
           /\ run.result.perspective = <<>>
           /\ run.result.skeptic = <<>>
           /\ run.result.severity = <<>>

\* The Skeptic request failed after Analyzer and Perspective had returned
\* non-empty outputs.
C1_Witness ==
    /\ RunAgentFailed
    /\ Len(run.log) = 6
    /\ run.log[2].ev = "ret" /\ run.log[2].out = Tok("S")
    /\ run.log[4].ev = "ret" /\ run.log[4].out = <<"a">>
    /\ run.log[5].ev = "call" /\ run.log[5].agent = "Skeptic"
    /\ run.log[6].exc.type = "APIConnectionError"

\* C2: for an empty, None or whitespace-only subject, run_full_analysis
\* returns the warning with every agent field and the severity field empty,
\* and has issued no request.
C2_BlankRunNoCalls ==
    (run.pc # "idle" /\ BlankText(run.idea)) =>
        /\ run.pc = "done"
        /\ run.outcome = "returned"
        /\ run.result.report =
               <<"(warning) Please enter an idea, plan, or argument first.">>
        /\ run.result.analyzer = <<>>
        /\ run.result.perspective = <<>>
        /\ run.result.skeptic = <<>>
        /\ run.result.severity = <<>>
        /\ run.log = <<>>

C2_Witness ==
    /\ run.pc = "done"
    /\ run.idea = <<" ">>
    /\ apiKey = Key
    /\ run.result.status = StatusNoInput

\* C3 as stated: the report of a successful run contains each agent output
\* verbatim and none of the six placeholder tokens, whatever the agents
\* returned.
C3_Original ==
    RunSucceeded =>
        /\ IsSubstring(run.result.analyzer, run.result.report)
        /\ IsSubstring(run.result.perspective, run.result.report)
        /\ IsSubstring(run.result.skeptic, run.result.report)
        /\ ~ContainsToken(run.result.report)

\* C3: when none of the three agent outputs contains a placeholder token,
\* the report of a successful run contains each agent output verbatim and
\* none of the six placeholder tokens.
C3_TokenFreeOutputs ==
    (/\ RunSucceeded
     /\ ~ContainsToken(run.result.analyzer)
     /\ ~ContainsToken(run.result.perspective)
     /\ ~ContainsToken(run.result.skeptic)) =>
        /\ IsSubstring(run.result.analyzer, run.result.report)
        /\ IsSubstring(run.result.perspective, run.result.report)
        /\ IsSubstring(run.result.skeptic, run.result.report)
        /\ ~ContainsToken(run.result.report)

C3_Witness ==
    /\ RunSucceeded
    /\ run.result.analyzer = <<"a">>
    /\ run.result.perspective = <<"b", "{">>
    /\ run.result.skeptic = <<"b", "{">>
    /\ run.result.report =
           <<"#", "e", "#", "t", "#", "a", "#", "b", "{", "#", "b", "{", "#", "r">>

\* The value the call of build_report gives to the placeholder named n.
ValueOf(n, res) ==
    CASE n = "A" -> res.analyzer
      [] n = "P" -> res.perspective
      [] n = "S" -> res.skeptic
      [] n = "E" -> <<"e">>
      [] n = "T" -> <<"t">>
      [] n = "R" -> <<"r">>

\* One pass over the template: a placeholder is replaced by its value and
\* the scan goes on after it in the template, never inside the value.
RECURSIVE SubstituteOnce(_, _)
SubstituteOnce(tpl, res) ==
    IF tpl = <<>> THEN <<>>
    ELSE IF Len(tpl) >= 3 /\ SubSeq(tpl, 1, 3) \in Tokens
         THEN ValueOf(tpl[2], res) \o SubstituteOnce(SubSeq(tpl, 4, Len(tpl)), res)
         ELSE <<Head(tpl)>> \o SubstituteOnce(Tail(tpl), res)

\* C4: build_report replaces each placeholder of the template once and does
\* not scan the substituted text again: a placeholder token inside an
\* argument appears unchanged in the report.
C4_NoRescan ==
    RunSucceeded =>
        run.result.report =
            SubstituteOnce(
                <<"#", "{", "E", "}", "#", "{", "T", "}", "#", "{", "A", "}",
                  "#", "{", "P", "}", "#", "{", "S", "}", "#", "{", "R", "}">>,
                run.result)

\* C5: in run_full_analysis the Analyzer request is the first event, the
\* Perspective request follows the Analyzer's return and carries that
\* returned output as its context, the Skeptic request follows the
\* Perspective's return, and every request is answered (returned or failed)
\* before the next event of the run, so no two are outstanding together.
C5_Sequential ==
    \A i \in DOMAIN run.log :
        run.log[i].ev = "call" =>
            /\ run.log[i].args.text = run.idea
            /\ run.log[i].agent = "Analyzer" => i = 1
            /\ run.log[i].agent = "Perspective" =>
                   /\ i > 1
                   /\ run.log[i - 1].ev = "ret"
                   /\ run.log[i - 1].agent = "Analyzer"
                   /\ run.log[i].args.context = run.log[i - 1].out
            /\ run.log[i].agent = "Skeptic" =>
                   /\ i > 1
                   /\ run.log[i - 1].ev = "ret"
                   /\ run.log[i - 1].agent = "Perspective"
            /\ i < Len(run.log) =>
                   /\ run.log[i + 1].ev \in {"ret", "exc"}
                   /\ run.log[i + 1].agent = run.log[i].agent
            /\ i = Len(run.log) => run.pc = run.log[i].agent

\* The Skeptic request is outstanding; the Perspective request carried the
\* Analyzer's output.
C5_Witness ==
    /\ run.pc = "Skeptic"
    /\ Len(run.log) = 5
    /\ run.log[2].out = <<"b", "{">>
    /\ run.log[3].agent = "Perspective"
    /\ run.log[3].args.context = <<"b", "{">>
    /\ run.log[4].out = <<"a">>

\* C6: run_full_analysis calls Analyzer with the base temperature t and
\* Perspective and Skeptic with min(1.0, t + 0.1), never above 1.0.
C6_Temperatures ==
    \A i \in DOMAIN run.log :
        run.log[i].ev = "call" =>
            /\ run.log[i].agent = "Analyzer" => run.log[i].args.temp = run.temp
            /\ run.log[i].agent \in {"Perspective", "Skeptic"} =>
                   /\ run.log[i].args.temp =
                          (IF run.temp + 2 <= 20 THEN run.temp + 2 ELSE 20)
                   /\ run.log[i].args.temp <= 20

\* Base temperature 1.0: Perspective and Skeptic were called with 1.0.
C6_Witness ==
    /\ run.temp = 20
    /\ run.pc = "Skeptic"
    /\ run.log[1].args.temp = 20
    /\ run.log[3].args.temp = 20
    /\ run.log[5].args.temp = 20

\* The operation ended by returning an error text, and that text is none of
\* the texts a failed request (a network failure) produces.
SurfacedAsConfigError(h, text) ==
    /\ h.outcome = "returned"
    /\ text # <<>>
    /\ \A e \in NetErrors :
           text # <<"(error) Error during analysis: ", e.type, " - ", e.msg>>

\* C7: without a credential, run_full_analysis, debate_view and
\* compare_ideas (on non-blank inputs) each end with a configuration error
\* that is distinct from a network failure, and issue no request.
C7_ConfigurationError ==
    apiKey = NoneText =>
        /\ (run.pc = "done" /\ ~BlankText(run.idea)) =>
               /\ NetCalls(run) = 0
               /\ SurfacedAsConfigError(run, run.result.report)
        /\ (debate.pc = "done" /\ ~BlankText(debate.idea)) =>
               /\ NetCalls(debate) = 0
               /\ SurfacedAsConfigError(debate, debate.result)
        /\ (compare.pc = "done" /\ ~BlankText(compare.idea_a)
                /\ ~BlankText(compare.idea_b)) =>
               /\ NetCalls(compare) = 0
               /\ SurfacedAsConfigError(compare, compare.result)

\* C8: no exception leaves run_full_analysis, debate_view or compare_ideas:
\* each failure is returned as a message.
C8_NoExceptionEscapes ==
    /\ run.outcome # "raised"
    /\ debate.outcome # "raised"
    /\ compare.outcome # "raised"

\* A click on the run button with a non-blank subject whose two handlers
\* both ended without any failure.
RunActionSucceeded ==
    /\ RunSucceeded
    /\ debate.pc = "done"
    /\ debate.outcome = "returned"
    /\ Excs(run) = <<>>
    /\ Excs(debate) = <<>>
    /\ ~BlankText(run.idea)

\* C9 as stated: the run button's action makes six requests in total.
C9_SixCalls == RunActionSucceeded => NetCalls(run) + NetCalls(debate) = 6

\* C9: the run button's action (run_full_analysis and debate_view), on a
\* non-blank subject and without failures, makes seven requests in total:
\* three by run_full_analysis and four by debate_view.
C9_SevenCalls ==
    RunActionSucceeded =>
        /\ NetCalls(run) = 3
        /\ NetCalls(debate) = 4
        /\ NetCalls(run) + NetCalls(debate) = 7

C9_Witness ==
    /\ RunActionSucceeded
    /\ Len(run.log) = 6
    /\ Len(debate.log) = 8
    /\ debate.log[7].agent = "Debate"

\* C10: compare_ideas returns the both-ideas warning without a request when
\* either text is blank (also when the credential is missing too), returns
\* the missing-key message without a request when both texts are given and
\* there is no credential, and otherwise issues exactly one request whose
\* user content carries both texts.
C10_Compare ==
    compare.pc # "idle" =>
        LET blank == BlankText(compare.idea_a) \/ BlankText(compare.idea_b) IN
        /\ blank =>
               /\ compare.pc = "done" /\ compare.outcome = "returned"
               /\ compare.result =
                      <<"(warning) Please provide **both** Idea A and Idea B for comparison.">>
               /\ NetCalls(compare) = 0
        /\ (~blank /\ apiKey = NoneText) =>
               /\ compare.pc = "done" /\ compare.outcome = "returned"
               /\ compare.result =
                      <<"(error) OPENAI_API_KEY missing. Check your .env file.">>
               /\ NetCalls(compare) = 0
        /\ (~blank /\ apiKey # NoneText) =>
               /\ NetCalls(compare) = 1
               /\ compare.log[1].ev = "call"
               /\ IsSubstring(compare.idea_a, compare.log[1].args.content)
               /\ IsSubstring(compare.idea_b, compare.log[1].args.content)
               /\ compare.log[1].args.content =
                      <<"IDEA A:">> \o compare.idea_a \o <<"IDEA B:">> \o compare.idea_b

\* A blank Idea B and no credential: the warning about the texts comes first.
C10_Witness ==
    /\ compare.pc = "done"
    /\ apiKey = NoneText
    /\ compare.idea_a = <<" ", "a">>
    /\ compare.idea_b = <<" ">>
    /\ compare.result = WarnBothIdeas

\* The percentage shown by the i-th bar of a rendering, and the width of its
\* filled part.
ShownPercent(html, i) == html[1 + 7 * (i - 1) + 3]
ShownWidth(html, i) == html[1 + 7 * (i - 1) + 6]

\* A score float() rejects: None, or a text that spells no number.
NonNumeric(score) ==
    \/ score.t = "None"
    \/ score.t = "str" /\ score.text \notin {"150", "42.5", "nan"}

CliPrinted(text) == \E i \in DOMAIN cli.stdout : cli.stdout[i] = text

\* The CLI process is over and an agent call or the composition failed.
CliFailed == cli.pc = "done" /\ Excs(cli) # <<>>

\* The CLI process is over, its three requests were answered and nothing
\* failed.
CliSucceeded == cli.pc = "done" /\ Len(Rets(cli)) = 3 /\ Excs(cli) = <<>>

\* C12: a CLI process in which an agent call or the report composition
\* failed has printed the failure on its standard output and ended with
\* exit status 0.
C12_FailureExitsZero ==
    CliFailed =>
        /\ cli.exit = "0"
        /\ \E i \in DOMAIN cli.stdout :
               IsSubstring(<<cli.log[Len(cli.log)].exc.type>>, cli.stdout[i])

\* C13: after a CLI process that succeeded, blind_spot_report.txt holds
\* exactly the report the process printed (nothing of an earlier content);
\* the file changes in no other step; and a process whose input read is
\* empty ends without any request and leaves the file as it was, absent or
\* not.
C13_FileIsPrintedReport ==
    /\ [](CliSucceeded =>
             /\ file # NoFile
             /\ CliPrinted(<<"\n">> \o file)
             /\ cli.stdout[Len(cli.stdout) - 1] = <<"\n">> \o file
             /\ cli.exit = "0")
    /\ [][file' # file => (cli.pc = "Skeptic" /\ CliSucceeded')]_vars
    /\ [][(cli.pc = "idle" /\ cli'.pc = "done" /\ cli'.user_text = <<>>) =>
              (file' = file /\ cli'.log = <<>> /\ cli'.exit = "0")]_vars

\* A process that succeeded on a two-line subject: the file holds the report
\* it printed, with the three outputs.
C13_Witness ==
    /\ CliSucceeded
    /\ cli.user_text = <<"a", "\n", " ", "a">>
    /\ file = <<"#", "E", "#", "T", "#", "a", "#", "a", "#", "a", "#", "R">>
    /\ CliPrinted(<<"\n">> \o file)

\* The three front-ends are over, on a non-blank subject.
FrontsCompared == FrontsDone /\ ~BlankText(run.idea)

\* C14: given the same subject, the same settings, the same environment and
\* the same answers of the service, the CLI, Gradio's run_full_analysis and
\* Streamlit's run_full_analysis issue the same requests with the same
\* arguments and end the same way: the same report text when the requests
\* succeeded, the error as a text when something failed.
C14_Equivalent ==
    FrontsCompared =>
        /\ Calls(sl.run) = Calls(run)
        /\ Calls(cli) = Calls(run)
        /\ sl.run.result.report = run.result.report
        /\ Excs(run) = <<>> =>
               /\ cli.exit = "0"
               /\ CliPrinted(<<"\n">> \o run.result.report)
        /\ Excs(run) # <<>> =>
               /\ cli.exit = "0"
               /\ \E i \in DOMAIN cli.stdout :
                      IsSubstring(<<run.log[Len(run.log)].exc.type>>, cli.stdout[i])

\* The states of a run of run_full_analysis.
RunIdle == run.pc = "idle"
RunRunning == run.pc \in {"Analyzer", "Perspective", "Skeptic"}
RunFailed == run.pc = "done" /\ run.result.status # StatusComplete
RunOrder == <<"Analyzer", "Perspective", "Skeptic">>

\* The requests of the run so far are the first ones of Analyzer,
\* Perspective, Skeptic, each agent once; a failure is the last event of
\* the run and ends it as Failed; a run is Succeeded only with its three
\* requests answered, nothing failed and the report composed.
RunShape ==
    /\ NetCalls(run) <= 3
    /\ \A i \in 1..NetCalls(run) : Calls(run)[i].agent = RunOrder[i]
    /\ Excs(run) # <<>> =>
           /\ Len(Excs(run)) = 1
           /\ run.log[Len(run.log)].ev = "exc"
           /\ RunFailed
    /\ RunRunning =>
           /\ run.log[Len(run.log)].ev = "call"
           /\ run.log[Len(run.log)].agent = run.pc
    /\ RunSucceeded =>
           /\ Len(Rets(run)) = 3
           /\ Excs(run) = <<>>
           /\ run.log[6] = [ev |-> "ret", agent |-> "Skeptic", out |-> run.result.skeptic]
           /\ run.result.report # <<>>
    /\ run.pc = "done" => (RunSucceeded /\ ~RunFailed) \/ (RunFailed /\ ~RunSucceeded)

\* A step of a run: Idle to Running or straight to its end, Running to the
\* next agent or to its end, and from its end only back to Idle with the
\* next click: a finished run issues nothing more.
RunMoves ==
    /\ RunIdle => (RunIdle' \/ run'.pc = "Analyzer" \/ run'.pc = "done")
    /\ run.pc = "Analyzer" => (run' = run \/ run'.pc \in {"Perspective", "done"})
    /\ run.pc = "Perspective" => (run' = run \/ run'.pc \in {"Skeptic", "done"})
    /\ run.pc = "Skeptic" => (run' = run \/ run'.pc = "done")
    /\ run.pc = "done" => (run' = run \/ RunIdle')

\* C15: every run of run_full_analysis goes Idle, Running, then Succeeded or
\* Failed, without retry: its requests are a prefix of Analyzer,
\* Perspective, Skeptic; the first failure ends it as Failed with no later
\* request; it is Succeeded only after the three answers and the
\* composition; and, an outstanding request being eventually answered or
\* failed, a run that is Running eventually is Succeeded or Failed.
C15_RunStateMachine ==
    /\ []RunShape
    /\ [][RunMoves]_vars
    /\ (RunRunning ~> (RunSucceeded \/ RunFailed))

\* A run that Failed at its second request: Analyzer answered, the
\* Perspective request failed, and no Skeptic request was issued.
C15_Witness ==
    /\ RunFailed
    /\ Len(run.log) = 4
    /\ run.log[1].ev = "call" /\ run.log[1].agent = "Analyzer"
    /\ run.log[2].ev = "ret"
    /\ run.log[3].ev = "call" /\ run.log[3].agent = "Perspective"
    /\ run.log[4].ev = "exc" /\ run.log[4].exc.type = "APIConnectionError"

DebateOrder == <<"Analyzer", "Perspective", "Skeptic", "Debate">>

\* C16: debate_view on a non-blank subject issues its own Analyzer,
\* Perspective and Skeptic requests in that order, the Perspective request
\* carrying the Analyzer output of this invocation, then one Debate
\* Synthesizer request whose content is made of the subject and of the
\* three outputs returned to this invocation (not those of the analysis run
\* of the same click); it returns only after that request; on a blank
\* subject it returns the warning without any request.
C16_DebateOwnCalls ==
    debate.pc # "idle" =>
        IF BlankText(debate.idea)
        THEN /\ debate.pc = "done" /\ debate.outcome = "returned"
             /\ debate.result = <<"(warning) Please enter an idea first.">>
             /\ debate.log = <<>>
        ELSE /\ NetCalls(debate) <= 4
             /\ \A i \in 1..NetCalls(debate) :
                    /\ Calls(debate)[i].agent = DebateOrder[i]
                    /\ debate.log[2 * i - 1] = Calls(debate)[i]
             /\ \A i \in DOMAIN debate.log :
                    debate.log[i].ev = "call" =>
                        /\ debate.log[i].agent \in {"Analyzer", "Perspective", "Skeptic"} =>
                               debate.log[i].args.text = debate.idea
                        /\ debate.log[i].agent = "Perspective" =>
                               /\ debate.log[2].ev = "ret"
                               /\ debate.log[i].args.context = debate.log[2].out
                        /\ debate.log[i].agent = "Debate" =>
                               /\ debate.log[2].ev = "ret" /\ debate.log[4].ev = "ret"
                               /\ debate.log[6].ev = "ret"
                               /\ debate.log[i].args.content =
                                      <<"USER_TEXT:">> \o debate.idea
                                      \o <<"ANALYZER_OUTPUT:">> \o debate.log[2].out
                                      \o <<"PERSPECTIVE_OUTPUT:">> \o debate.log[4].out
                                      \o <<"SKEPTIC_OUTPUT:">> \o debate.log[6].out
             /\ (debate.pc = "done" /\ debate.outcome = "returned") =>
                    /\ NetCalls(debate) = 4
                    /\ debate.log[8] = [ev |-> "ret", agent |-> "Debate", out |-> debate.result]

\* Both listeners of a click ended; the debate's synthesizer request carried
\* the outputs returned to the debate, which are not those of the run.
C16_Witness ==
    /\ RunSucceeded
    /\ run.result.analyzer = <<"a">>
    /\ run.result.skeptic = Tok("S")
    /\ debate.pc = "done" /\ debate.outcome = "returned"
    /\ debate.idea = <<" ", "a">>
    /\ debate.log[7].args.content =
           <<"USER_TEXT:", " ", "a", "ANALYZER_OUTPUT:", "c",
             "PERSPECTIVE_OUTPUT:", "d", "SKEPTIC_OUTPUT:", "c">>

\* C17: for every base temperature t, debate_view calls Analyzer at t,
\* Perspective at t, Skeptic at min(1.0, t + 0.1), and the Debate
\* Synthesizer at 0.5 whatever t is.
C17_DebateTemperatures ==
    \A i \in DOMAIN debate.log :
        debate.log[i].ev = "call" =>
            /\ debate.log[i].agent = "Analyzer" => debate.log[i].args.temp = debate.temp
            /\ debate.log[i].agent = "Perspective" => debate.log[i].args.temp = debate.temp
            /\ debate.log[i].agent = "Skeptic" =>
                   debate.log[i].args.temp =
                       (IF debate.temp + 2 <= 20 THEN debate.temp + 2 ELSE 20)
            /\ debate.log[i].agent = "Debate" => debate.log[i].args.temp = 10

\* Base temperature 0.95: Perspective at 0.95 while the run's Perspective
\* request was at 1.0, Skeptic at 1.0, the synthesizer at 0.5.
C17_Witness ==
    /\ debate.temp = 19
    /\ debate.pc = "done" /\ debate.outcome = "returned"
    /\ Len(debate.log) = 8
    /\ debate.log[1].args.temp = 19
    /\ debate.log[3].args.temp = 19
    /\ debate.log[5].args.temp = 20
    /\ debate.log[7].args.temp = 10
    /\ run.pc = "Skeptic" /\ run.log[3].args.temp = 20

\* A script run of the Streamlit run button on a non-blank subject is over.
SlRunActionOver == sl.pc = "done" /\ sl.button = "run" /\ ~BlankText(sl.idea)

\* run_full_analysis of that script run returned its error result.
SlRunErrored == Excs(sl.run) # <<>>

\* C18: after a run-button action of the Streamlit front-end, the success
\* status is shown and the subject is appended to the history only if
\* run_full_analysis succeeded; when it returned an error result, no
\* success status is shown and debate_view has made no request.
C18_SuccessOnlyIfRunSucceeded ==
    SlRunActionOver =>
        /\ sl.status = <<"(ok) Multi-agent analysis complete.">> => ~SlRunErrored
        /\ (sl.history # <<>> /\ sl.history[Len(sl.history)] = sl.idea) => ~SlRunErrored
        /\ SlRunErrored => NetCalls(sl.debate) = 0

====
